---- MODULE Spec2Model ----
(***************************************************************************)
(* The connection state machine of the ADB client (class ADB, src/adb.js): *)
(* connect(), runCommand() and closeConnection() driving an ADBDevice.     *)
(* ADBDevice (lib/adb-device.js) is not part of the sources at hand; its   *)
(* four handshake operations are modelled from the specification and from  *)
(* the unit tests of sendPublicKey.                                        *)
(***************************************************************************)
EXTENDS Integers, Sequences, FiniteSets, TLC

\* ---------------------------------------------------------------- bounds
\* number of distinct AUTH tokens the device may issue
NumTokens == 2
\* the I/O trace of one connect() invocation is recorded up to this length
MaxTrace == 5
\* the CNXN counters saturate at this value
MaxCount == 2
\* device.open calls that overlapping callers may have pending at once
MaxOpens == 2
\* transport and file-system calls recorded for one command of the device
MaxWire == 9
\* USB devices in one enumeration, and interfaces of one USB device
MaxDevices == 2
MaxInterfaces == 2

\* ------------------------------------------------------ program constants
NOT_CONNECTED == 0
WAIT_FOR_AUTH == 1
SEND_PRIVATE_KEY == 2
SEND_PUBLIC_KEY == 3
CONNECTED == 4

\* e.errno of a transport timeout, as tested by the three catch blocks
TIMEOUT_ERRNO == 2

\* AUTH sub-type of a challenge token
AUTH_TOKEN == 1

\* AUTH sub-type of a signature (a device never sends it; used as "another AUTH")
AUTH_SIGNATURE == 2

States == {NOT_CONNECTED, WAIT_FOR_AUTH, SEND_PRIVATE_KEY, SEND_PUBLIC_KEY, CONNECTED}

Tokens == 1..NumTokens

\* the errors a transport operation may raise, and the TypeError raised by
\* reading a property of undefined
TransportErrors == {"Timeout", "IoError"}

\* e.errno as the catch blocks read it: 2 for a timeout, another number for
\* another transport error, 0 standing for the undefined errno of a TypeError
Errno(err) ==
    CASE err = "Timeout" -> TIMEOUT_ERRNO
      [] err = "IoError" -> 1
      [] OTHER -> 0

\* the command types handed to runCommand
Commands == {"shell", "reboot"}

\* ------------------------------------------------------------- messages
NoReply == [command |-> "none", arg0 |-> 0, data |-> 0]

\* what a receive may deliver during the handshake
Replies ==
    {[command |-> "AUTH", arg0 |-> a, data |-> t] : a \in {AUTH_TOKEN, AUTH_SIGNATURE}, t \in Tokens}
    \cup {[command |-> "CNXN", arg0 |-> 0, data |-> 0],
          [command |-> "OKAY", arg0 |-> 0, data |-> 0]}

\* the local variable `packet` of connect(): undefined, false, or an AUTH packet
Undefined == [kind |-> "undefined", data |-> 0]
False == [kind |-> "false", data |-> 0]
Packet(r) == [kind |-> "packet", data |-> r.data]

\* outcome of a device operation: whether its message went out, the error it
\* raised ("none" when it returned) and the reply it received
Outcome(s, e, r) == [sent |-> s, err |-> e, reply |-> r]

\* ------------------------------------------------ ADBDevice (lib/adb-device)
\* what the transport may do to a send-only operation
SendOutcomes(dev) ==
    {Outcome(TRUE, "none", NoReply)}
    \cup (IF dev = "any"
          THEN {Outcome(FALSE, e, NoReply) : e \in TransportErrors}
          ELSE {})

\* what the transport may do to a receive
RecvOutcomes(dev, sent, replies) ==
    {Outcome(sent, "none", r) : r \in replies}
    \cup (IF dev = "any"
          THEN {Outcome(sent, e, NoReply) : e \in TransportErrors}
          ELSE {})

\* initConnection(): sends CNXN(A_VERSION, MAXDATA, "host::")
InitConnectionOutcomes(dev) == SendOutcomes(dev)

\* replies of a device to the host's CNXN: a trusting device challenges with a token
CnxnReplies(dev) ==
    IF dev = "trusted"
    THEN {r \in Replies : r.command = "AUTH" /\ r.arg0 = AUTH_TOKEN}
    ELSE Replies

\* replies of a device to AUTH(SIGNATURE) and to AUTH(RSAPUBLICKEY): a trusting
\* device accepts with CNXN
AuthReplies(dev) ==
    IF dev = "trusted"
    THEN {r \in Replies : r.command = "CNXN"}
    ELSE Replies

\* waitForAuth(): one receive; the packet when it is AUTH(TOKEN), false otherwise
waitForAuth(r) ==
    IF r.command = "AUTH" /\ r.arg0 = AUTH_TOKEN THEN Packet(r) ELSE False

WaitForAuthOutcomes(dev) == RecvOutcomes(dev, FALSE, CnxnReplies(dev))

\* sendSignedToken(token): send AUTH(SIGNATURE, 0, sign(token)), one receive;
\* true exactly when the reply is CNXN
sendSignedToken(r) == r.command = "CNXN"

\* sendPublicKey(): send AUTH(RSAPUBLICKEY, 0, key), one receive; true exactly
\* when the reply is CNXN
sendPublicKey(r) == r.command = "CNXN"

SendRecvOutcomes(dev) ==
    (SendOutcomes(dev) \ {Outcome(TRUE, "none", NoReply)})
    \cup RecvOutcomes(dev, TRUE, AuthReplies(dev))

\* device.open(command) and device.closeConnection(): they return or raise
CallOutcomes == {"none"} \cup TransportErrors

VARIABLES
    state,      \* this.state
    packet,     \* connect()'s local `packet`
    cpc,        \* connect(): "idle" or "loop" (inside while (1))
    rpc,        \* runCommand(): "idle" or the command device.open is running
    kpc,        \* closeConnection(): "idle" or "closing" (awaiting the device)
    device,     \* behaviour of the attached device: "trusted" or "any"
    ev,         \* the step taken last: handler, state before it, what happened
    trace,      \* transport traffic of the current / latest connect() invocation
    path,       \* states entered since the FSM was last NOT_CONNECTED
    startState, \* this.state when the current / latest connect() was invoked
    callCnxn,   \* CNXN sent / received during the current connect() invocation
    passCnxn,   \* CNXN sent / received since the FSM was last NOT_CONNECTED
    authTok,    \* token of the AUTH(TOKEN) the step just taken received, else 0
    closedSince, \* a closeConnection() has returned and no connect() step has
                \* reached CONNECTED since
    opens,      \* device.open calls that have not settled yet
    openFailed, \* the device.open settled last raised, and neither connect()
                \* nor closeConnection() has been invoked since
    dcmd,       \* ADBDevice: the command open() is running ("idle" when none)
    stream,     \* ADBDevice: the command's stream: "none", "open" or "closed"
    wire,       \* ADBDevice: calls made for the current / latest command, in order
    dop,        \* ADBDevice: the operation performed last
    usbDevices, \* what usb.getDeviceList() returns to findAdbDevices
    found,      \* how findAdbDevices settled ("none" while it has not run)
    passSends   \* history: what the host sent since the handshake last began

adbVars == <<state, packet, cpc, rpc, kpc, device, ev, trace, path, startState,
             callCnxn, passCnxn, authTok, closedSince, opens, openFailed,
             passSends>>

deviceVars == <<dcmd, stream, wire, dop>>

usbVars == <<usbDevices, found>>

vars == <<adbVars, deviceVars, usbVars>>

\* no command has been handed to the device yet
NoOp == [act |-> "none", cmd |-> "-", reply |-> "-", ok |-> TRUE, before |-> 0]

DeviceIdle ==
    /\ dcmd = "idle"
    /\ stream = "none"
    /\ wire = <<>>
    /\ dop = NoOp

Inc(n) == IF n < MaxCount THEN n + 1 ELSE n

Record(tr, e) == IF Len(tr) < MaxTrace THEN Append(tr, e) ELSE tr

\* a step: the handler, this.state before it, the device outcome, whether an
\* error left the handler, the token it signed and the token the step before
\* it had received
Event(act, at, o, raised, tok) ==
    [act |-> act, at |-> at, sent |-> o.sent, err |-> o.err,
     reply |-> o.reply.command, arg0 |-> o.reply.arg0, raised |-> raised,
     tok |-> tok, fresh |-> authTok]

Quiet == Outcome(FALSE, "none", NoReply)

\* no handler is suspended: the caller may invoke the next one
Quiescent == cpc = "idle" /\ rpc = "idle" /\ kpc = "idle"

AdbInit ==
    /\ state = NOT_CONNECTED
    /\ packet = Undefined
    /\ cpc = "idle"
    /\ rpc = "idle"
    /\ kpc = "idle"
    /\ device \in {"trusted", "any"}
    /\ trace = <<>>
    /\ path = <<NOT_CONNECTED>>
    /\ startState = NOT_CONNECTED
    /\ callCnxn = [host |-> 0, dev |-> 0]
    /\ passCnxn = [host |-> 0, dev |-> 0]
    /\ authTok = 0
    /\ closedSince = FALSE
    /\ passSends = <<>>
    /\ opens = 0
    /\ openFailed = FALSE
    /\ ev = Event("new", NOT_CONNECTED, Quiet, FALSE, 0)

\* ------------------------------------------- findAdbDevices (adb.js 40-92)
\* lib/constants: the vendor ids of the Android partners, and the class,
\* subclass and protocol of an ADB interface
USB_VENDOR_IDS == {"google"}
ADB_CLASS == 255
ADB_SUBCLASS == 66
ADB_PROTOCOL == 1

Vendors == USB_VENDOR_IDS \cup {"unlisted"}

\* interfaces a device may expose: ADB, an ADB-class interface with a third
\* endpoint, and fastboot (same class and subclass, another protocol)
AdbIface == [endpoints |-> 2, bInterfaceClass |-> ADB_CLASS,
             bInterfaceSubClass |-> ADB_SUBCLASS, bInterfaceProtocol |-> ADB_PROTOCOL]
ThreeEndpoints == [AdbIface EXCEPT !.endpoints = 3]
Fastboot == [AdbIface EXCEPT !.bInterfaceProtocol = 3]
Interfaces == {AdbIface, ThreeEndpoints, Fastboot}

SeqsUpTo(S, n) == UNION {[1..k -> S] : k \in 0..n}

\* the null that _getAdbInterface returns, where an interface is the index
\* it has in device.interfaces
Null == 0

\* a USB device as findAdbDevices sees it, once opened: nullInterfaces says
\* that device.interfaces is null; a device without a configuration
\* descriptor has no interfaces
UsbDevices ==
    {d \in [idVendor : Vendors,
            configDescriptor : BOOLEAN,
            nullInterfaces : BOOLEAN,
            interfaces : SeqsUpTo(Interfaces, MaxInterfaces)] :
        ~d.configDescriptor \/ d.nullInterfaces => d.interfaces = <<>>}

NotRun == [kind |-> "none", list |-> <<>>, error |-> "-", opened |-> {}]

UsbIdle ==
    /\ usbDevices = <<>>
    /\ found = NotRun

\* mutant: every vendor is probed
VendorListed_Any(v) == TRUE

\* USB_VENDOR_IDS.indexOf(vendorID) !== -1
VendorListed(v) == v \in USB_VENDOR_IDS

\* the two tests of the loop of _getAdbInterface that do not `continue`
IsAdbInterface(iface) ==
    /\ iface.endpoints = 2
    /\ ~(\/ iface.bInterfaceClass # ADB_CLASS
         \/ iface.bInterfaceSubClass # ADB_SUBCLASS
         \/ iface.bInterfaceProtocol # ADB_PROTOCOL)

\* the loop of _getAdbInterface from interface j on: the index of the first
\* interface that passes, Null when none does
RECURSIVE ScanInterfaces(_, _)
ScanInterfaces(ifaces, j) ==
    IF j > Len(ifaces) THEN Null
    ELSE IF IsAdbInterface(ifaces[j]) THEN j
    ELSE ScanInterfaces(ifaces, j + 1)

\* _getAdbInterface(device), after device.open()
getAdbInterface(d) ==
    IF d.nullInterfaces THEN Null
    ELSE IF d.configDescriptor THEN ScanInterfaces(d.interfaces, 1)
    ELSE Null

Raised(msg, opened) ==
    [kind |-> "raised", list |-> <<>>, error |-> msg, opened |-> opened]

\* the for loop of findAdbDevices from device i on, with the list built and
\* the devices opened so far; _getSerialNo throws for device failAt
RECURSIVE FindLoop(_, _, _, _, _)
FindLoop(devs, i, adbDevices, opened, failAt) ==
    IF i > Len(devs) THEN
        IF Len(adbDevices) = 0
        THEN Raised("No ADB devices found.", opened)
        ELSE [kind |-> "returned", list |-> adbDevices, error |-> "-",
              opened |-> opened]
    ELSE IF ~VendorListed(devs[i].idVendor) THEN
        FindLoop(devs, i + 1, adbDevices, opened, failAt)
    ELSE LET deviceInterface == getAdbInterface(devs[i])
             nowOpened == opened \cup {i}
         IN  IF deviceInterface = Null THEN
                 FindLoop(devs, i + 1, adbDevices, nowOpened, failAt)
             ELSE IF i = failAt THEN
                 [Raised("serial", nowOpened) EXCEPT !.list = adbDevices]
             ELSE FindLoop(devs, i + 1,
                           Append(adbDevices,
                                  [device |-> i, deviceInterface |-> deviceInterface]),
                           nowOpened, failAt)

findAdbDevices(devs, failAt) ==
    IF Len(devs) = 0 THEN Raised("No USB devices found.", {})
    ELSE FindLoop(devs, 1, <<>>, {}, failAt)

\* the enumeration is an input of findAdbDevices
FindInit ==
    /\ AdbInit /\ device = "any"
    /\ DeviceIdle
    /\ usbDevices \in SeqsUpTo(UsbDevices, MaxDevices)
    /\ found = NotRun

FindAdbDevicesCall ==
    /\ found.kind = "none"
    /\ \E failAt \in 0..Len(usbDevices) :
         found' = findAdbDevices(usbDevices, failAt)
    /\ UNCHANGED <<adbVars, deviceVars, usbDevices>>

FindNext == FindAdbDevicesCall

FindSpec == FindInit /\ [][FindNext]_vars

Init == AdbInit /\ DeviceIdle /\ UsbIdle

\* ------------------------------------------------------- ADB (src/adb.js)
\* mutant: a reply that is not an AUTH token is waited out instead of resetting
WaitForAuthNext_KeepWaiting(pkt) ==
    IF pkt = False THEN WAIT_FOR_AUTH ELSE SEND_PRIVATE_KEY

\* case WAIT_FOR_AUTH: packet === false resets, anything else goes on to sign
WaitForAuthNext(pkt) ==
    IF pkt = False THEN NOT_CONNECTED ELSE SEND_PRIVATE_KEY

\* mutant: the test of sendSignedToken's result is inverted
SendPrivateKeyNext_Inverted(ok) ==
    IF ok THEN SEND_PUBLIC_KEY ELSE CONNECTED

\* mutant: a rejected signature resets the FSM instead of offering the public key
SendPrivateKeyNext_Reset(ok) ==
    IF ok THEN CONNECTED ELSE NOT_CONNECTED

\* case SEND_PRIVATE_KEY: the result of sendSignedToken decides
SendPrivateKeyNext(ok) ==
    IF ok THEN CONNECTED ELSE SEND_PUBLIC_KEY

\* mutant: a refused public key is offered again instead of resetting the FSM
SendPublicKeyNext_Retry(ok) ==
    IF ok THEN CONNECTED ELSE SEND_PUBLIC_KEY

\* case SEND_PUBLIC_KEY: the result of sendPublicKey decides
SendPublicKeyNext(ok) ==
    IF ok THEN CONNECTED ELSE NOT_CONNECTED

\* mutant: the catch block of SEND_PRIVATE_KEY swallows every error
SendPrivateKeyCatches_All(err) == TRUE

\* mutant: the catch block of SEND_PUBLIC_KEY rethrows the timeout too
SendPublicKeyCatches_Rethrow(err) == FALSE

\* the three catch blocks: TRUE when the error is swallowed and the FSM reset,
\* FALSE when it is thrown on to the caller
WaitForAuthCatches(err) == Errno(err) = TIMEOUT_ERRNO

SendPrivateKeyCatches(err) == Errno(err) = TIMEOUT_ERRNO

SendPublicKeyCatches(err) == Errno(err) = TIMEOUT_ERRNO

\* mutant: connect() also returns once the public key is to be offered
ConnectReturns_Early(s) == s \in {SEND_PUBLIC_KEY, CONNECTED}

\* case CONNECTED is the only one that returns
ConnectReturns(s) == s = CONNECTED

\* mutants: the guard only excludes NOT_CONNECTED
RunCommandAllowed_AnyHandshake(s) == s # NOT_CONNECTED

CloseAllowed_AnyHandshake(s) == s # NOT_CONNECTED

\* the guards of runCommand and closeConnection
RunCommandAllowed(s) == s = CONNECTED

CloseAllowed(s) == s = CONNECTED

\* mutant: a packet already held is kept (packet = packet || await ...)
WaitForAuthPacket_KeepFirst(old, o) ==
    IF o.err # "none" THEN old
    ELSE IF old.kind = "packet" THEN old
    ELSE waitForAuth(o.reply)

\* the value WAIT_FOR_AUTH leaves in `packet`: assigned when waitForAuth
\* returns, untouched when it throws
WaitForAuthPacket(old, o) ==
    IF o.err = "none" THEN waitForAuth(o.reply) ELSE old

\* mutant: a failed command drops the connection
AfterOpen_Reset(s, e) == IF e = "none" THEN s ELSE NOT_CONNECTED

\* this.state once device.open has settled with e: runCommand has no catch
\* block and assigns nothing
AfterOpen(s, e) == s

\* what case SEND_PRIVATE_KEY may see: reading packet.data of undefined throws a
\* TypeError inside the try block, before anything is sent
SendPrivateKeyOutcomes(pkt, dev) ==
    IF pkt = Undefined
    THEN {Outcome(FALSE, "TypeError", NoReply)}
    ELSE SendRecvOutcomes(dev)

Traffic(tr, msg, o) ==
    LET t1 == IF o.sent THEN Record(tr, <<"send", msg>>) ELSE tr
    IN  IF o.err # "none" THEN Record(t1, <<"raise", o.err>>)
        ELSE IF o.reply.command # "none" THEN Record(t1, <<"recv", o.reply.command>>)
        ELSE t1

Count(c, msg, o) ==
    [host |-> IF o.sent /\ msg = "CNXN" THEN Inc(c.host) ELSE c.host,
     dev |-> IF o.reply.command = "CNXN" THEN Inc(c.dev) ELSE c.dev]

NoCnxn == [host |-> 0, dev |-> 0]

\* one iteration of while (1) that called the device: device outcome o of the
\* operation sending msg, next state ns, whether the error left connect()
Step(act, msg, o, ns, raised, pkt, tok, atok) ==
    /\ state' = ns
    /\ packet' = pkt
    /\ cpc' = IF raised THEN "idle" ELSE "loop"
    /\ ev' = Event(act, state, o, raised, tok)
    /\ trace' = Traffic(trace, msg, o)
    /\ path' = IF ns = NOT_CONNECTED THEN <<NOT_CONNECTED>>
               ELSE IF ns = state THEN path ELSE Append(path, ns)
    /\ callCnxn' = Count(callCnxn, msg, o)
    /\ passCnxn' = IF ns = NOT_CONNECTED THEN NoCnxn ELSE Count(passCnxn, msg, o)
    /\ authTok' = atok
    /\ closedSince' = IF ns = CONNECTED THEN FALSE ELSE closedSince
    /\ passSends' = LET sofar == IF state = NOT_CONNECTED THEN <<>> ELSE passSends
                    IN  IF o.sent THEN Record(sofar, msg) ELSE sofar
    /\ UNCHANGED <<rpc, kpc, device, startState, opens, openFailed, deviceVars,
                   usbVars>>

\* connect() is invoked: `let packet;`
ConnectInvoke ==
    /\ cpc' = "loop"
    /\ packet' = Undefined
    /\ trace' = <<>>
    /\ startState' = state
    /\ callCnxn' = NoCnxn
    /\ ev' = Event("connect", state, Quiet, FALSE, 0)
    /\ authTok' = 0
    /\ openFailed' = FALSE
    /\ UNCHANGED <<state, rpc, kpc, device, path, passCnxn, closedSince, opens,
                   deviceVars, usbVars, passSends>>

ConnectCall == Quiescent /\ ConnectInvoke

\* case NOT_CONNECTED: initConnection is outside any try block
InitConnection ==
    /\ cpc = "loop"
    /\ state = NOT_CONNECTED
    /\ \E o \in InitConnectionOutcomes(device) :
         Step("initConnection", "CNXN", o,
              IF o.err = "none" THEN WAIT_FOR_AUTH ELSE state,
              o.err # "none", packet, 0, 0)

\* case WAIT_FOR_AUTH
WaitForAuth ==
    /\ cpc = "loop"
    /\ state = WAIT_FOR_AUTH
    /\ \E o \in WaitForAuthOutcomes(device) :
         LET pkt == WaitForAuthPacket(packet, o)
             caught == o.err # "none" /\ WaitForAuthCatches(o.err)
             raised == o.err # "none" /\ ~WaitForAuthCatches(o.err)
         IN  Step("waitForAuth", "none", o,
                  IF raised THEN state
                  ELSE IF caught THEN NOT_CONNECTED
                  ELSE WaitForAuthNext(pkt),
                  raised, pkt, 0,
                  IF o.err = "none" /\ waitForAuth(o.reply) # False
                  THEN o.reply.data ELSE 0)

\* case SEND_PRIVATE_KEY
SendPrivateKey ==
    /\ cpc = "loop"
    /\ state = SEND_PRIVATE_KEY
    /\ \E o \in SendPrivateKeyOutcomes(packet, device) :
         LET caught == o.err # "none" /\ SendPrivateKeyCatches(o.err)
             raised == o.err # "none" /\ ~SendPrivateKeyCatches(o.err)
         IN  Step("sendSignedToken", "AUTH(SIGNATURE)", o,
                  IF raised THEN state
                  ELSE IF caught THEN NOT_CONNECTED
                  ELSE SendPrivateKeyNext(sendSignedToken(o.reply)),
                  raised, packet, IF o.sent THEN packet.data ELSE 0, 0)

\* case SEND_PUBLIC_KEY
SendPublicKey ==
    /\ cpc = "loop"
    /\ state = SEND_PUBLIC_KEY
    /\ \E o \in SendRecvOutcomes(device) :
         LET caught == o.err # "none" /\ SendPublicKeyCatches(o.err)
             raised == o.err # "none" /\ ~SendPublicKeyCatches(o.err)
         IN  Step("sendPublicKey", "AUTH(RSAPUBLICKEY)", o,
                  IF raised THEN state
                  ELSE IF caught THEN NOT_CONNECTED
                  ELSE SendPublicKeyNext(sendPublicKey(o.reply)),
                  raised, packet, 0, 0)

\* case CONNECTED: return
ConnectReturn ==
    /\ cpc = "loop"
    /\ ConnectReturns(state)
    /\ cpc' = "idle"
    /\ ev' = Event("connectReturn", state, Quiet, FALSE, 0)
    /\ authTok' = 0
    /\ UNCHANGED <<state, packet, rpc, kpc, device, trace, path, startState,
                   callCnxn, passCnxn, closedSince, opens, openFailed,
                   deviceVars, usbVars, passSends>>

\* runCommand(command) up to its await: device.open is called, or the error
\* "State is not CONNECTED" is thrown
RunCommandInvoke ==
    /\ \E c \in Commands :
         IF RunCommandAllowed(state)
         THEN /\ rpc' = c
              /\ opens' = opens + 1
              /\ ev' = Event("runCommand", state, Quiet, FALSE, 0)
         ELSE /\ rpc' = rpc
              /\ opens' = opens
              /\ ev' = Event("runCommand", state,
                             Outcome(FALSE, "NotConnected", NoReply), TRUE, 0)
    /\ authTok' = 0
    /\ UNCHANGED <<state, packet, cpc, kpc, device, trace, path, startState,
                   callCnxn, passCnxn, closedSince, openFailed,
                   deviceVars, usbVars, passSends>>

RunCommandCall == Quiescent /\ RunCommandInvoke

\* device.open settles: runCommand returns its output or throws its error
RunCommandDone ==
    /\ rpc # "idle"
    /\ \E e \in CallOutcomes :
         /\ ev' = Event("open", state, Outcome(TRUE, e, NoReply), e # "none", 0)
         /\ state' = AfterOpen(state, e)
         /\ openFailed' = (e # "none")
    /\ opens' = opens - 1
    /\ rpc' = IF opens = 1 THEN "idle" ELSE rpc
    /\ authTok' = 0
    /\ UNCHANGED <<packet, cpc, kpc, device, trace, path, startState,
                   callCnxn, passCnxn, closedSince,
                   deviceVars, usbVars, passSends>>

\* closeConnection() up to its await: device.closeConnection is called, or
\* "Not connection to close." is logged and the call returns
CloseConnectionInvoke ==
    /\ kpc' = IF CloseAllowed(state) THEN "closing" ELSE "idle"
    /\ ev' = Event("closeConnection", state, Quiet, FALSE, 0)
    /\ closedSince' = IF CloseAllowed(state) THEN closedSince ELSE TRUE
    /\ authTok' = 0
    /\ openFailed' = FALSE
    /\ UNCHANGED <<state, packet, cpc, rpc, device, trace, path, startState,
                   callCnxn, passCnxn, opens,
                   deviceVars, usbVars, passSends>>

CloseConnectionCall == Quiescent /\ CloseConnectionInvoke

\* device.closeConnection settles: the state is reset only when it returned
CloseConnectionDone ==
    /\ kpc = "closing"
    /\ \E e \in CallOutcomes :
         /\ ev' = Event("closed", state, Outcome(TRUE, e, NoReply), e # "none", 0)
         /\ state' = IF e = "none" THEN NOT_CONNECTED ELSE state
         /\ path' = IF e = "none" THEN <<NOT_CONNECTED>> ELSE path
         /\ passCnxn' = IF e = "none" THEN NoCnxn ELSE passCnxn
         /\ closedSince' = IF e = "none" THEN TRUE ELSE closedSince
    /\ kpc' = "idle"
    /\ authTok' = 0
    /\ UNCHANGED <<packet, cpc, rpc, device, trace, startState, callCnxn,
                   opens, openFailed,
                   deviceVars, usbVars, passSends>>

\* the iterations of connect()'s loop
ConnectStep ==
    InitConnection \/ WaitForAuth \/ SendPrivateKey \/ SendPublicKey \/ ConnectReturn

Next ==
    \/ ConnectCall
    \/ InitConnection
    \/ WaitForAuth
    \/ SendPrivateKey
    \/ SendPublicKey
    \/ ConnectReturn
    \/ RunCommandCall
    \/ RunCommandDone
    \/ CloseConnectionCall
    \/ CloseConnectionDone

\* one caller, one call at a time
Spec == Init /\ [][Next]_vars

\* the event loop resumes a suspended connect() once its device operation settles
LiveSpec == Spec /\ WF_vars(ConnectStep)

\* a caller that does not await: a method is invoked while another one is
\* suspended at its await (one connect() and one closeConnection() at a time,
\* up to MaxOpens runCommand)
ConnectCallOverlapping ==
    /\ ~Quiescent
    /\ cpc = "idle"
    /\ ConnectInvoke

RunCommandCallOverlapping ==
    /\ ~Quiescent
    /\ opens < MaxOpens
    /\ RunCommandInvoke

CloseConnectionCallOverlapping ==
    /\ ~Quiescent
    /\ kpc = "idle"
    /\ CloseConnectionInvoke

ConcNext ==
    \/ Next
    \/ ConnectCallOverlapping
    \/ RunCommandCallOverlapping
    \/ CloseConnectionCallOverlapping

\* callers that invoke the methods at any suspension point
ConcSpec == Init /\ [][ConcNext]_vars

\* ------------------------------- ADBDevice: streams (lib/adb-device, tests)
\* commands a device may answer with on a stream
StreamReplies == {"OKAY", "WRTE", "CLSE"}

\* mutant: a CLSE reply is taken for an acknowledgement as well
SendAndOkayAccepts_Clse(r) == r \in {"OKAY", "CLSE"}

\* sendAndOkay resolves with the packet when its command is OKAY, and is
\* rejected with an error naming the command otherwise
SendAndOkayAccepts(r) == r = "OKAY"

\* the transport calls of sendAndOkay(cmd, arg0, arg1, data) receiving r:
\* _sendMsg(cmd, arg0, arg1, data), then _recvMsg(CONNECT_MAXDATA)
SendAndOkayTraffic(cmd, a0, a1, r) ==
    <<(<<"send", cmd, a0, a1>>), (<<"recv", r, "-", "-">>)>>

\* mutant: the acknowledgement is sent before the packet is received
RecvAndOkayTraffic_AckFirst(l, rm, r) ==
    <<(<<"send", "OKAY", l, rm>>), (<<"recv", r, "-", "-">>)>>

\* the transport calls of recvAndOkay(localId, remoteId) receiving r:
\* _recvMsg(CONNECT_MAXDATA), then _sendMsg(OKAY, localId, remoteId, "")
RecvAndOkayTraffic(l, rm, r) ==
    <<(<<"recv", r, "-", "-">>), (<<"send", "OKAY", l, rm>>)>>

\* mutant: the result of fs.stat is ignored
PushAllowed_Always(statOk) == TRUE

\* open() with command.type push: push is called only when fs.stat returned
PushAllowed(statOk) == statOk

\* the calls of open() for a push command before any stream exists
PushPreCheck(statOk) ==
    <<(<<"stat", IF statOk THEN "ok" ELSE "throws", "-", "-">>)>>
    \o (IF PushAllowed(statOk) THEN <<(<<"call", "push", "-", "-">>)>> ELSE <<>>)

Op(act, cmd, reply, ok) ==
    [act |-> act, cmd |-> cmd, reply |-> reply, ok |-> ok, before |-> Len(wire)]

\* open({type: "shell", ...}): shell() is called
OpenShell ==
    /\ dcmd = "idle"
    /\ dcmd' = "shell"
    /\ stream' = "none"
    /\ wire' = <<>>
    /\ dop' = [Op("open", "shell", "-", TRUE) EXCEPT !.before = 0]
    /\ UNCHANGED <<adbVars, usbVars>>

\* open({type: "push", ...}): fs.stat(source), then push() unless it threw
OpenPush ==
    /\ dcmd = "idle"
    /\ \E statOk \in BOOLEAN :
         /\ wire' = PushPreCheck(statOk)
         /\ dcmd' = IF PushAllowed(statOk) THEN "push" ELSE "idle"
         /\ dop' = [Op("open", "push", "-", statOk) EXCEPT !.before = 0]
    /\ stream' = "none"
    /\ UNCHANGED <<adbVars, usbVars>>

\* the command opens its stream: sendAndOkay(OPEN, localId, 0, destination)
StreamOpen ==
    /\ dcmd # "idle"
    /\ stream = "none"
    /\ \E r \in StreamReplies :
         /\ wire' = wire \o SendAndOkayTraffic("OPEN", "local", "0", r)
         /\ stream' = IF SendAndOkayAccepts(r) THEN "open" ELSE "closed"
         /\ dcmd' = IF SendAndOkayAccepts(r) THEN dcmd ELSE "idle"
         /\ dop' = Op("sendAndOkay", "OPEN", r, SendAndOkayAccepts(r))
    /\ UNCHANGED <<adbVars, usbVars>>

\* push writes a chunk: sendAndOkay(WRTE, localId, remoteId, data)
StreamWrite ==
    /\ dcmd = "push"
    /\ stream = "open"
    /\ Len(wire) + 3 <= MaxWire
    /\ \E r \in StreamReplies :
         /\ wire' = wire \o SendAndOkayTraffic("WRTE", "local", "remote", r)
         /\ stream' = IF SendAndOkayAccepts(r) THEN "open" ELSE "closed"
         /\ dcmd' = IF SendAndOkayAccepts(r) THEN dcmd ELSE "idle"
         /\ dop' = Op("sendAndOkay", "WRTE", r, SendAndOkayAccepts(r))
    /\ UNCHANGED <<adbVars, usbVars>>

\* shell reads a chunk: recvAndOkay(localId, remoteId); CLSE ends the output
StreamRead ==
    /\ dcmd = "shell"
    /\ stream = "open"
    /\ Len(wire) + 3 <= MaxWire
    /\ \E r \in StreamReplies :
         /\ wire' = wire \o RecvAndOkayTraffic("local", "remote", r)
         /\ stream' = IF r = "CLSE" THEN "closed" ELSE "open"
         /\ dcmd' = IF r = "CLSE" THEN "idle" ELSE dcmd
         /\ dop' = Op("recvAndOkay", "OKAY", r, TRUE)
    /\ UNCHANGED <<adbVars, usbVars>>

\* the command is done with its stream: CLSE(localId, remoteId, "")
StreamClose ==
    /\ dcmd # "idle"
    /\ stream = "open"
    /\ wire' = Append(wire, <<"send", "CLSE", "local", "remote">>)
    /\ stream' = "closed"
    /\ dcmd' = "idle"
    /\ dop' = Op("close", "CLSE", "-", TRUE)
    /\ UNCHANGED <<adbVars, usbVars>>

DeviceNext ==
    \/ OpenShell
    \/ OpenPush
    \/ StreamOpen
    \/ StreamWrite
    \/ StreamRead
    \/ StreamClose

\* the commands of one ADBDevice, one at a time
DeviceSpec == Init /\ [][DeviceNext]_vars

TypeOK ==
    /\ state \in States
    /\ packet \in {Undefined, False} \cup {Packet(r) : r \in Replies}
    /\ cpc \in {"idle", "loop"}
    /\ rpc \in {"idle"} \cup Commands
    /\ kpc \in {"idle", "closing"}
    /\ Len(trace) <= MaxTrace
    /\ Len(path) <= 5
    /\ authTok \in {0} \cup Tokens
    /\ closedSince \in BOOLEAN
    /\ Len(passSends) <= MaxTrace
    /\ opens \in 0..MaxOpens
    /\ openFailed \in BOOLEAN
    /\ dcmd \in {"idle", "shell", "push"}
    /\ stream \in {"none", "open", "closed"}
    /\ Len(wire) <= MaxWire

\* ------------------------------------------------------------------ claims

\* C1: runCommand calls device.open only when this.state is CONNECTED; invoked
\* in any other state it throws, device.open is not called and this.state is
\* what it was.
C1_RunCommandOnlyWhenConnected ==
    /\ (rpc # "idle" => state = CONNECTED)
    /\ (ev.act = "runCommand" =>
          /\ state = ev.at
          /\ (rpc # "idle" <=> ev.at = CONNECTED)
          /\ (ev.at # CONNECTED => ev.raised /\ ev.err = "NotConnected")
          /\ (ev.at = CONNECTED => ~ev.raised))

\* C1 witness: runCommand was rejected while the handshake was left half-way
C1_Witness ==
    /\ ev.act = "runCommand"
    /\ ev.at = SEND_PRIVATE_KEY
    /\ ev.raised
    /\ rpc = "idle"

C3_CnxnInWaitForAuthConnects ==
    (ev.act = "waitForAuth" /\ ev.reply = "CNXN") => state = CONNECTED

\* C4 as stated: a connect() invoked in NOT_CONNECTED that returns has sent
\* exactly one CNXN and received exactly one CNXN.
C4_OneCnxnPerConnect ==
    (ev.act = "connectReturn" /\ startState = NOT_CONNECTED) =>
        callCnxn = [host |-> 1, dev |-> 1]

\* C4 amended: whenever the state is CONNECTED, exactly one CNXN was sent and
\* exactly one was received since the FSM was last NOT_CONNECTED; a connect()
\* invoked in NOT_CONNECTED that returns has sent and received at least one.
C4_OneCnxnPerPass ==
    /\ (state = CONNECTED => passCnxn = [host |-> 1, dev |-> 1])
    /\ (ev.act = "connectReturn" /\ startState = NOT_CONNECTED =>
          callCnxn.host >= 1 /\ callCnxn.dev >= 1)

\* C4 witness: connect() returned after a pass that was reset
C4_Witness ==
    /\ ev.act = "connectReturn"
    /\ state = CONNECTED
    /\ callCnxn.host = 2
    /\ passCnxn.host = 1

\* C5: a timeout in WAIT_FOR_AUTH or SEND_PRIVATE_KEY resets the state to
\* NOT_CONNECTED and does not leave connect(); any other error raised in
\* WAIT_FOR_AUTH, SEND_PRIVATE_KEY or SEND_PUBLIC_KEY leaves connect() with the
\* state as it was.
C5_TimeoutsResetOthersPropagate ==
    /\ (ev.act \in {"waitForAuth", "sendSignedToken"} /\ ev.err = "Timeout" =>
          state = NOT_CONNECTED /\ ~ev.raised /\ cpc = "loop")
    /\ (ev.act \in {"waitForAuth", "sendSignedToken", "sendPublicKey"}
        /\ ev.err \notin {"none", "Timeout"} =>
          ev.raised /\ cpc = "idle" /\ state = ev.at)

\* C5 witness: one connect() swallowed a timeout and then threw an I/O error
C5_Witness ==
    /\ ev.act = "sendSignedToken"
    /\ ev.err = "IoError"
    /\ ev.raised
    /\ trace[2] = <<"raise", "Timeout">>

\* C6: connect() returns only in CONNECTED, reached along NOT_CONNECTED,
\* WAIT_FOR_AUTH, SEND_PRIVATE_KEY, optionally SEND_PUBLIC_KEY; invoked when
\* already CONNECTED it returns without any transport traffic.
C6_ReturnsOnlyConnected ==
    ev.act = "connectReturn" =>
        /\ state = CONNECTED
        /\ path \in {<<NOT_CONNECTED, WAIT_FOR_AUTH, SEND_PRIVATE_KEY, CONNECTED>>,
                     <<NOT_CONNECTED, WAIT_FOR_AUTH, SEND_PRIVATE_KEY,
                       SEND_PUBLIC_KEY, CONNECTED>>}
        /\ (startState = CONNECTED => trace = <<>> /\ callCnxn = NoCnxn)

\* C6 witness: connect() returned after offering the public key
C6_Witness ==
    /\ ev.act = "connectReturn"
    /\ startState = NOT_CONNECTED
    /\ path = <<NOT_CONNECTED, WAIT_FOR_AUTH, SEND_PRIVATE_KEY,
                SEND_PUBLIC_KEY, CONNECTED>>

TrustedFirstUseTrace ==
    <<(<<"send", "CNXN">>), (<<"recv", "AUTH">>),
      (<<"send", "AUTH(SIGNATURE)">>), (<<"recv", "CNXN">>)>>

\* C7: with a device that answers CNXN with AUTH(TOKEN) and the signature with
\* CNXN, a connect() invoked in NOT_CONNECTED eventually returns in CONNECTED
\* having sent CNXN, received AUTH, sent the signed token and received CNXN,
\* and nothing else.
C7_TrustedFirstUse ==
    (device = "trusted" /\ cpc = "loop" /\ state = NOT_CONNECTED)
        ~> (ev.act = "connectReturn" /\ state = CONNECTED
            /\ trace = TrustedFirstUseTrace)

\* C7 witness: the trusted handshake has completed
C7_Witness ==
    /\ device = "trusted"
    /\ ev.act = "connectReturn"
    /\ state = CONNECTED
    /\ trace = TrustedFirstUseTrace

\* C8: a SEND_PRIVATE_KEY step that received a reply had sent the signed
\* token; CNXN moves the FSM to CONNECTED, AUTH to SEND_PUBLIC_KEY, and no
\* other state is entered.
C8_SendPrivateKeyTransitions ==
    (ev.act = "sendSignedToken" /\ ev.err = "none") =>
        /\ ev.at = SEND_PRIVATE_KEY
        /\ ev.sent
        /\ ev.tok \in Tokens
        /\ (ev.reply = "CNXN" => state = CONNECTED)
        /\ (ev.reply = "AUTH" => state = SEND_PUBLIC_KEY)
        /\ state \in {CONNECTED, SEND_PUBLIC_KEY}

\* C8 witness: the signature was rejected with another AUTH
C8_Witness ==
    /\ ev.act = "sendSignedToken"
    /\ ev.reply = "AUTH"
    /\ state = SEND_PUBLIC_KEY

\* C9: in WAIT_FOR_AUTH an AUTH(TOKEN) reply moves the FSM to SEND_PRIVATE_KEY
\* and any other reply to NOT_CONNECTED; the token signed in SEND_PRIVATE_KEY
\* is the one the step just before it received in WAIT_FOR_AUTH.
C9_WaitForAuthAndFreshToken ==
    /\ (ev.act = "waitForAuth" /\ ev.err = "none" =>
          IF ev.reply = "AUTH" /\ ev.arg0 = AUTH_TOKEN
          THEN state = SEND_PRIVATE_KEY /\ authTok \in Tokens
          ELSE state = NOT_CONNECTED)
    /\ (ev.act = "sendSignedToken" /\ ev.sent =>
          ev.fresh \in Tokens /\ ev.tok = ev.fresh)

\* C9 witness: the second pass of one connect() signed the second pass's token
C9_Witness ==
    /\ ev.act = "sendSignedToken"
    /\ ev.sent
    /\ callCnxn.host = 2
    /\ ev.tok = 2
    /\ trace[2] = <<"recv", "AUTH">>

\* C10: closeConnection calls device.closeConnection only in CONNECTED and
\* leaves this.state alone otherwise; when the device has closed the state is
\* NOT_CONNECTED; once a closeConnection has returned, runCommand is rejected
\* until a connect() step reaches CONNECTED.
C10_CloseConnection ==
    /\ (kpc = "closing" => state = CONNECTED)
    /\ (ev.act = "closeConnection" =>
          state = ev.at /\ (kpc = "closing" <=> ev.at = CONNECTED))
    /\ (ev.act = "closed" /\ ~ev.raised =>
          ev.at = CONNECTED /\ state = NOT_CONNECTED /\ closedSince)
    /\ (closedSince =>
          /\ state # CONNECTED
          /\ rpc = "idle"
          /\ (ev.act = "runCommand" => ev.raised /\ ev.err = "NotConnected"))

\* C10 witness: a connect() succeeded, the connection was closed, and a
\* runCommand was then rejected
C10_Witness ==
    /\ closedSince
    /\ ev.act = "runCommand"
    /\ ev.raised
    /\ state = NOT_CONNECTED
    /\ trace = TrustedFirstUseTrace

\* device exchanges in flight: pending device.open calls and a pending
\* device.closeConnection
InFlight == opens + (IF kpc = "closing" THEN 1 ELSE 0)

\* C11 as stated: whatever the interleaving of the callers' invocations, at
\* most one device exchange is in flight, and no handshake traffic of connect()
\* happens while a device.open or device.closeConnection is pending.
C11_NoOverlappingExchanges ==
    /\ InFlight <= 1
    /\ (ev.act \in {"initConnection", "waitForAuth", "sendSignedToken", "sendPublicKey"}
        /\ ev.err # "TypeError" => InFlight = 0)

\* C12: when device.open raises, runCommand throws the error on, this.state is
\* still CONNECTED, and the next runCommand is dispatched to the device without
\* a connect() in between.
C12_FailedCommandStaysConnected ==
    /\ (ev.act = "open" /\ ev.err # "none" =>
          ev.raised /\ ev.at = CONNECTED /\ state = CONNECTED /\ openFailed)
    /\ (openFailed => state = CONNECTED)
    /\ (ev.act = "runCommand" /\ openFailed =>
          ~ev.raised /\ rpc # "idle" /\ opens = 1)

\* C12 witness: a runCommand was dispatched right after a failed one
C12_Witness ==
    /\ ev.act = "runCommand"
    /\ openFailed
    /\ rpc # "idle"
    /\ state = CONNECTED


\* the last two calls on the wire
LastTwo == SubSeq(wire, Len(wire) - 1, Len(wire))

\* every WRTE the host sent follows, with nothing in between, the OKAY that
\* answered the OPEN or the WRTE sent before it
WriteWindowOne ==
    \A i \in 1..Len(wire) :
        wire[i][1] = "send" /\ wire[i][2] = "WRTE" =>
            /\ i > 2
            /\ wire[i - 1] = <<"recv", "OKAY", "-", "-">>
            /\ wire[i - 2][1] = "send"
            /\ wire[i - 2][2] \in {"OPEN", "WRTE"}

\* C13: sendAndOkay makes one send and then one receive, resolves exactly when
\* the reply is OKAY and is rejected for every other reply, so that no WRTE
\* goes out before the OKAY of the OPEN nor before the OKAY of the WRTE
\* before it.
C13_WriteWindowOfOne ==
    /\ (dop.act = "sendAndOkay" =>
          /\ Len(wire) = dop.before + 2
          /\ LastTwo[1][1] = "send" /\ LastTwo[1][2] = dop.cmd
          /\ LastTwo[2] = <<"recv", dop.reply, "-", "-">>
          /\ (dop.ok <=> dop.reply = "OKAY")
          /\ (dop.ok => stream = "open" /\ dcmd # "idle")
          /\ (~dop.ok => stream = "closed" /\ dcmd = "idle"))
    /\ WriteWindowOne

\* a second WRTE has been acknowledged on one stream
C13_Witness ==
    /\ dop.act = "sendAndOkay" /\ dop.cmd = "WRTE" /\ dop.ok
    /\ dop.before >= 6
    /\ wire[dop.before - 1][2] = "WRTE"

\* C14: recvAndOkay makes one receive and then one send of
\* OKAY(localId, remoteId, ""), the receive first and nothing in between.
C14_ReadIsAcknowledged ==
    dop.act = "recvAndOkay" =>
        /\ Len(wire) = dop.before + 2
        /\ LastTwo[1] = <<"recv", dop.reply, "-", "-">>
        /\ LastTwo[2] = <<"send", "OKAY", "local", "remote">>

\* a chunk of shell output has been read and acknowledged
C14_Witness ==
    /\ dop.act = "recvAndOkay" /\ dop.reply = "WRTE"
    /\ dcmd = "shell" /\ stream = "open"

\* C15: a push command stats its source once, before anything else; when the
\* stat throws, push is not called and no stream is opened; when it returns,
\* push is called once.
C15_PushPreCheck ==
    /\ (dop.act = "open" /\ dop.cmd = "push" /\ ~dop.ok =>
          wire = <<(<<"stat", "throws", "-", "-">>)>>
          /\ dcmd = "idle" /\ stream = "none")
    /\ (dop.act = "open" /\ dop.cmd = "push" /\ dop.ok =>
          wire = <<(<<"stat", "ok", "-", "-">>), (<<"call", "push", "-", "-">>)>>
          /\ dcmd = "push" /\ stream = "none")
    /\ (dcmd = "push" => Len(wire) >= 2 /\ wire[1] = <<"stat", "ok", "-", "-">>)
    /\ \A i \in 1..Len(wire) :
          /\ (wire[i][1] = "stat" => i = 1)
          /\ (wire[i][1] = "call" =>
                i = 2 /\ wire[i][2] = "push" /\ wire[1] = <<"stat", "ok", "-", "-">>)
          /\ (wire[1] = <<"stat", "throws", "-", "-">> => i = 1)

\* the stat of a push command threw
C15_Witness ==
    /\ dop.act = "open" /\ dop.cmd = "push" /\ ~dop.ok
    /\ wire # <<>> /\ wire[1][1] = "stat"


\* what the description of device discovery asks of an interface and a device
HasAdbDescriptor(iface) ==
    /\ iface.endpoints = 2
    /\ iface.bInterfaceClass = ADB_CLASS
    /\ iface.bInterfaceSubClass = ADB_SUBCLASS
    /\ iface.bInterfaceProtocol = ADB_PROTOCOL

Qualifies(d) ==
    /\ d.idVendor \in USB_VENDOR_IDS
    /\ \E j \in 1..Len(d.interfaces) : HasAdbDescriptor(d.interfaces[j])

FirstAdbInterface(d) ==
    CHOOSE j \in 1..Len(d.interfaces) :
        /\ HasAdbDescriptor(d.interfaces[j])
        /\ \A k \in 1..(j - 1) : ~HasAdbDescriptor(d.interfaces[k])

\* the positions of the qualifying devices, in enumeration order
QualifyingDevices ==
    SelectSeq([i \in 1..Len(usbDevices) |-> i], LAMBDA i : Qualifies(usbDevices[i]))

\* C16: findAdbDevices returns exactly the qualifying devices, in enumeration
\* order, each with its first ADB interface; it opens no device of an
\* unlisted vendor; it raises when the enumeration is empty or no device
\* qualifies, and never returns an empty list.
C16_FindAdbDevices ==
    found.kind # "none" =>
        /\ (found.kind = "returned" =>
              /\ found.list # <<>>
              /\ Len(found.list) = Len(QualifyingDevices)
              /\ \A k \in 1..Len(found.list) :
                    /\ found.list[k].device = QualifyingDevices[k]
                    /\ found.list[k].deviceInterface =
                         FirstAdbInterface(usbDevices[QualifyingDevices[k]]))
        /\ \A i \in found.opened : usbDevices[i].idVendor \in USB_VENDOR_IDS
        /\ (usbDevices = <<>> =>
              found.kind = "raised" /\ found.error = "No USB devices found.")
        /\ (usbDevices # <<>> /\ QualifyingDevices = <<>> =>
              found.kind = "raised" /\ found.error = "No ADB devices found.")
        /\ (found.kind = "raised" /\ QualifyingDevices # <<>> =>
              /\ found.error = "serial"
              /\ Len(found.list) < Len(QualifyingDevices)
              /\ QualifyingDevices[Len(found.list) + 1] \in found.opened)

\* an unlisted device that exposes ADB is skipped, and the listed device after
\* it is returned with its second interface, the first being fastboot
C16_Witness ==
    /\ found.kind = "returned"
    /\ Len(usbDevices) = 2
    /\ usbDevices[1].idVendor = "unlisted"
    /\ usbDevices[1].interfaces = <<AdbIface>>
    /\ usbDevices[2].interfaces = <<Fastboot, AdbIface>>
    /\ found.list = <<[device |-> 2, deviceInterface |-> 2]>>
    /\ found.opened = {2}


\* C17: the SEND_PUBLIC_KEY step that got a reply sent AUTH(RSAPUBLICKEY) once
\* and received once; on CNXN the FSM is CONNECTED; on any other reply it is
\* back in NOT_CONNECTED with connect() still running, about to send CNXN
\* again, and nothing was raised to the caller.
C17_SendPublicKeyTransitions ==
    ev.act = "sendPublicKey" =>
        /\ ev.at = SEND_PUBLIC_KEY
        /\ (ev.err = "none" =>
              /\ ev.sent /\ ev.reply # "none" /\ ~ev.raised
              /\ sendPublicKey([command |-> ev.reply]) = (ev.reply = "CNXN")
              /\ cpc = "loop"
              /\ (ev.reply = "CNXN" => state = CONNECTED)
              /\ (ev.reply # "CNXN" =>
                    state = NOT_CONNECTED /\ passCnxn = NoCnxn
                    /\ path = <<NOT_CONNECTED>>))

\* the device answered the public key with another AUTH packet
C17_Witness ==
    /\ ev.act = "sendPublicKey" /\ ev.err = "none" /\ ev.reply = "AUTH"
    /\ state = NOT_CONNECTED /\ cpc = "loop"


\* C18 as stated: whenever the SEND_PRIVATE_KEY step runs, connect() holds
\* the AUTH token packet that waitForAuth received in this invocation.
C18_TokenAvailableToSign ==
    ev.act = "sendSignedToken" =>
        /\ packet.kind = "packet"
        /\ ev.err # "TypeError"

IsPrefix(s, t) == Len(s) <= Len(t) /\ s = SubSeq(t, 1, Len(s))

\* the edges of the switch into SEND_PUBLIC_KEY, CONNECTED and WAIT_FOR_AUTH
HandshakeEdges ==
    state # ev.at =>
        /\ (state = SEND_PUBLIC_KEY => ev.at = SEND_PRIVATE_KEY)
        /\ (state = CONNECTED => ev.at \in {SEND_PRIVATE_KEY, SEND_PUBLIC_KEY})
        /\ (state = WAIT_FOR_AUTH =>
              ev.at = NOT_CONNECTED /\ ev.act = "initConnection" /\ ev.sent)

\* C19 as stated: SEND_PUBLIC_KEY is entered only from SEND_PRIVATE_KEY,
\* CONNECTED only from SEND_PRIVATE_KEY or SEND_PUBLIC_KEY, WAIT_FOR_AUTH only
\* from NOT_CONNECTED right after CNXN was sent, and the host's sends of one
\* handshake pass are CNXN, then AUTH(SIGNATURE), then possibly
\* AUTH(RSAPUBLICKEY).
C19_HandshakeOrder ==
    /\ HandshakeEdges
    /\ IsPrefix(passSends, <<"CNXN", "AUTH(SIGNATURE)", "AUTH(RSAPUBLICKEY)">>)


\* C20 as stated: every connect() that was invoked eventually hands control
\* back to its caller, by returning or by raising.
C20_ConnectHandsBack == (cpc = "loop") ~> (cpc = "idle")

====
